---- MODULE Spec2Model ----
(***************************************************************************)
(* Model of werdes72/reconciler, package compreconciler (orchestrator:     *)
(* configuration, validation, StartLocal / StartRemote, the run loop and   *)
(* the callback handlers) and package progress (readiness predicates).     *)
(*                                                                         *)
(* Durations are counted in seconds (30 * time.Second is 30).              *)
(***************************************************************************)
EXTENDS Integers, Sequences, FiniteSets, TLC

(***************************************************************************)
(* Bounds of the model                                                     *)
(***************************************************************************)
\* largest positive value handed to Configure for maxRetries
MaxConfRetries == 2
\* number of HTTP requests the server receives
MaxRequests == 3
\* number of Callback calls made on one handler
MaxCallbacks == 3
\* largest replica, partition and scheduled count of a workload
MaxReplicas == 3
\* number of replica sets in the cluster
MaxReplicaSets == 2
\* number of status conditions an object reports
MaxConditions == 2

(***************************************************************************)
(* Program constants, reconciler.go:21-27                                  *)
(***************************************************************************)
defaultServerPort == 8080
defaultMaxRetries == 5
defaultUpdateInterval == 30
defaultRetryDelay == 30

(***************************************************************************)
(* Input domains                                                           *)
(***************************************************************************)
Durations == {-1, 0, 2}
RetryCounts == -1 .. MaxConfRetries
Ports == {-1, 0, 9090}

VARIABLES
    r,          \* the ComponentReconciler
    atStart,    \* the ComponentReconciler as it was when Start* was entered
    mode,       \* "configuring", "local", "remote", "returned", "idle"
    runs,       \* the runs: runs[0] is StartLocal's, runs[i] is HTTP request i's
    handlers,   \* the HTTP handler invocations of StartRemote, one per request
    cb,         \* a CallbackHandler, its target and what its calls returned
    kind,       \* the kind of the tracked resource
    object,     \* the cluster state the readiness predicates fetch
    verdict     \* what each readiness predicate returned, <<>> before its call

vars == <<r, atStart, mode, runs, handlers, cb, kind, object, verdict>>
orchestratorVars == <<r, atStart, mode, runs, handlers>>
callbackVars == <<cb>>
progressVars == <<kind, object, verdict>>

\* the values of the variables a specification does not use
IdleCallback == [kind |-> "none", received |-> <<>>, calls |-> 0,
                 fctResult |-> "nil", response |-> 0, returned |-> "nil"]
NoObject == [fail |-> "none"]
PredicateNames == {"isDeploymentReady", "isStatefulSetReady", "isPodReady",
                   "isDaemonSetReady", "isJobReady", "isCRDBetaReady",
                   "isCRDReady"}
NoVerdict == [p \in PredicateNames |-> <<>>]

(***************************************************************************)
(* ComponentReconciler, reconciler.go:33-57                                *)
(***************************************************************************)
NewComponentReconciler ==
    [ debug |-> FALSE,
      port |-> 0, sslCrtFile |-> "", sslKeyFile |-> "",
      preInstallAction |-> FALSE, installAction |-> FALSE,
      postInstallAction |-> FALSE,
      updateInterval |-> 0, maxRetries |-> 0, retryDelay |-> 0,
      interval |-> 0, timeout |-> 0 ]

validateNoRetryDefault(c) ==
    [c EXCEPT
        !.updateInterval = IF @ <= 0 THEN defaultUpdateInterval ELSE @,
        !.port = IF @ <= 0 THEN defaultServerPort ELSE @,
        !.retryDelay = IF @ <= 0 THEN defaultRetryDelay ELSE @]

validateZeroOnly(c) ==
    [c EXCEPT
        !.updateInterval = IF @ = 0 THEN defaultUpdateInterval ELSE @,
        !.maxRetries = IF @ = 0 THEN defaultMaxRetries ELSE @,
        !.port = IF @ = 0 THEN defaultServerPort ELSE @,
        !.retryDelay = IF @ = 0 THEN defaultRetryDelay ELSE @]

validate(c) ==
    [c EXCEPT
        !.updateInterval = IF @ <= 0 THEN defaultUpdateInterval ELSE @,
        !.maxRetries = IF @ <= 0 THEN defaultMaxRetries ELSE @,
        !.port = IF @ <= 0 THEN defaultServerPort ELSE @,
        !.retryDelay = IF @ <= 0 THEN defaultRetryDelay ELSE @]

(***************************************************************************)
(* Builder calls, reconciler.go:78-116                                     *)
(***************************************************************************)
Configure ==
    /\ mode = "configuring"
    /\ \E u \in Durations, m \in RetryCounts, d \in Durations :
          r' = [r EXCEPT !.updateInterval = u, !.maxRetries = m, !.retryDelay = d]
    /\ UNCHANGED <<atStart, mode, runs, handlers>>
    /\ UNCHANGED <<callbackVars, progressVars>>

WithServerConfiguration ==
    /\ mode = "configuring"
    /\ \E p \in Ports :
          r' = [r EXCEPT !.port = p, !.sslCrtFile = "crt", !.sslKeyFile = "key"]
    /\ UNCHANGED <<atStart, mode, runs, handlers>>
    /\ UNCHANGED <<callbackVars, progressVars>>

WithPreInstallAction ==
    /\ mode = "configuring"
    /\ r' = [r EXCEPT !.preInstallAction = TRUE]
    /\ UNCHANGED <<atStart, mode, runs, handlers>>
    /\ UNCHANGED <<callbackVars, progressVars>>

WithInstallAction ==
    /\ mode = "configuring"
    /\ r' = [r EXCEPT !.installAction = TRUE]
    /\ UNCHANGED <<atStart, mode, runs, handlers>>
    /\ UNCHANGED <<callbackVars, progressVars>>

WithPostInstallAction ==
    /\ mode = "configuring"
    /\ r' = [r EXCEPT !.postInstallAction = TRUE]
    /\ UNCHANGED <<atStart, mode, runs, handlers>>
    /\ UNCHANGED <<callbackVars, progressVars>>

WithProgressTrackerConfig ==
    /\ mode = "configuring"
    /\ \E it \in {<<0, 0>>, <<1, 3>>} :
          r' = [r EXCEPT !.interval = it[1], !.timeout = it[2]]
    /\ UNCHANGED <<atStart, mode, runs, handlers>>
    /\ UNCHANGED <<callbackVars, progressVars>>

Debug ==
    /\ mode = "configuring"
    /\ r' = [r EXCEPT !.debug = TRUE]
    /\ UNCHANGED <<atStart, mode, runs, handlers>>
    /\ UNCHANGED <<callbackVars, progressVars>>

(***************************************************************************)
(* The run loop (runner.Run), driven through a CallbackHandler.            *)
(* A run is a record: pc, the attempt number, the statuses delivered so    *)
(* far, the number of attempts whose action pipeline failed, the handler   *)
(* it delivers through and its result.                                     *)
(***************************************************************************)
Running == "Running"
Success == "Success"
Error == "Error"
Terminal == {Success, Error}

RunIds == 0 .. MaxRequests

IdleRun == [pc |-> "idle", attempt |-> 0, delivered |-> <<>>,
            failed |-> 0, cbh |-> "none", result |-> "none"]

NewRun(cbh) == [pc |-> "deliver", attempt |-> 1, delivered |-> <<>>,
                failed |-> 0, cbh |-> cbh, result |-> "none"]

\* the stages of the pipeline that are configured, in pipeline order
PresentActions(c) ==
    {i \in 1 .. 3 : \/ i = 1 /\ c.preInstallAction
                    \/ i = 2 /\ c.installAction
                    \/ i = 3 /\ c.postInstallAction}

\* step 2a: Running is delivered before any work of the attempt
DeliverRunningOf(rn) ==
    [rn EXCEPT !.delivered = Append(@, Running), !.pc = "pipeline"]

\* step 2b: failAt is the first stage that reports an error, 0 when none does
PipelineOf(rn, failAt) ==
    IF failAt = 0
    THEN [rn EXCEPT !.pc = "tracker"]
    ELSE [rn EXCEPT !.failed = @ + 1, !.pc = "failed"]

\* steps 2c, 2d with the return after the success delivery left out
TrackerOfNoReturn(rn, ready) ==
    IF ready
    THEN [rn EXCEPT !.delivered = Append(@, Success), !.result = "ok",
                    !.pc = "failed"]
    ELSE [rn EXCEPT !.pc = "failed"]

\* steps 2c, 2d: the readiness wait ends ready or by the tracker timeout
TrackerOf(rn, ready) ==
    IF ready
    THEN [rn EXCEPT !.delivered = Append(@, Success), !.result = "ok",
                    !.pc = "done"]
    ELSE [rn EXCEPT !.pc = "failed"]

\* steps 2e, 3: wait retryDelay and retry, or give up after the last attempt
RetryOf(rn, c) ==
    IF rn.attempt < c.maxRetries
    THEN [rn EXCEPT !.attempt = @ + 1, !.pc = "deliver"]
    ELSE [rn EXCEPT !.delivered = Append(@, Error),
                    !.result = "retriesExhausted", !.pc = "done"]

Active(k) ==
    IF k = 0 THEN mode = "local"
    ELSE mode = "remote" /\ handlers[k].pc = "running"

DeliverRunning(k) ==
    /\ Active(k)
    /\ runs[k].pc = "deliver"
    /\ runs[k].cbh # "nil"
    /\ runs' = [runs EXCEPT ![k] = DeliverRunningOf(@)]
    /\ UNCHANGED <<r, atStart, mode, handlers>>
    /\ UNCHANGED <<callbackVars, progressVars>>

RunPipeline(k) ==
    /\ Active(k)
    /\ runs[k].pc = "pipeline"
    /\ \E failAt \in PresentActions(r) \cup {0} :
          runs' = [runs EXCEPT ![k] = PipelineOf(@, failAt)]
    /\ UNCHANGED <<r, atStart, mode, handlers>>
    /\ UNCHANGED <<callbackVars, progressVars>>

TrackReadiness(k) ==
    /\ Active(k)
    /\ runs[k].pc = "tracker"
    /\ \E ready \in BOOLEAN :
          runs' = [runs EXCEPT ![k] = TrackerOf(@, ready)]
    /\ UNCHANGED <<r, atStart, mode, handlers>>
    /\ UNCHANGED <<callbackVars, progressVars>>

Retry(k) ==
    /\ Active(k)
    /\ runs[k].pc = "failed"
    /\ runs' = [runs EXCEPT ![k] = RetryOf(@, r)]
    /\ UNCHANGED <<r, atStart, mode, handlers>>
    /\ UNCHANGED <<callbackVars, progressVars>>

(***************************************************************************)
(* StartLocal, reconciler.go:118-127                                       *)
(***************************************************************************)
StartLocal ==
    /\ mode = "configuring"
    /\ atStart' = r
    /\ r' = validate(r)
    /\ \E fctPresent \in BOOLEAN :
          IF fctPresent
          THEN /\ mode' = "local"
               /\ runs' = [runs EXCEPT ![0] = NewRun("local")]
          ELSE /\ mode' = "returned"
               /\ runs' = [runs EXCEPT ![0].result = "handlerError"]
    /\ UNCHANGED handlers
    /\ UNCHANGED <<callbackVars, progressVars>>

LocalReturn ==
    /\ mode = "local"
    /\ runs[0].pc = "done"
    /\ mode' = "returned"
    /\ UNCHANGED <<r, atStart, runs, handlers>>
    /\ UNCHANGED <<callbackVars, progressVars>>

(***************************************************************************)
(* StartRemote, reconciler.go:129-161: validation and the server start     *)
(***************************************************************************)
StartRemote ==
    /\ mode = "configuring"
    /\ atStart' = r
    /\ r' = validate(r)
    /\ mode' = "remote"
    /\ UNCHANGED <<runs, handlers>>
    /\ UNCHANGED <<callbackVars, progressVars>>

(***************************************************************************)
(* The HTTP handler of StartRemote, reconciler.go:136-150, and the request *)
(* decoding of reconciler.go:174-203.  A request is its version path       *)
(* segment and its body.                                                   *)
(***************************************************************************)
Versions == {"", "1"}
Bodies == {"unreadable", "malformed", "emptyURL", "invalidURL", "validURL"}

\* modelForVersion: an empty contract version is an error
modelForVersionFails(version) == version = ""

\* r.model(req) returns (nil, err): version, ReadAll, modelForVersion, Unmarshal
modelFails(version, body) ==
    \/ modelForVersionFails(version)
    \/ body = "unreadable"
    \/ body = "malformed"

\* newRemoteCallbackHandler(model.CallbackURL, debug) returns an error
newRemoteCallbackHandlerFails(body) == body \in {"emptyURL", "invalidURL"}

IdleHandler == [pc |-> "idle", decodeFailed |-> FALSE, handlerFailed |-> FALSE,
                errorResponses |-> 0, started |-> FALSE, nilModelUsed |-> FALSE]

IdleHandlers == [i \in 1 .. MaxRequests |-> IdleHandler]

\* the handler up to the point where r.start blocks in the run
HandleRequest(i) ==
    /\ mode = "remote"
    /\ handlers[i].pc = "idle"
    /\ \E version \in Versions, body \in Bodies :
          IF modelFails(version, body)
          THEN \* sendError, no return: model.CallbackURL dereferences nil
               /\ handlers' = [handlers EXCEPT ![i] =
                     [@ EXCEPT !.decodeFailed = TRUE, !.errorResponses = @ + 1,
                               !.nilModelUsed = TRUE, !.pc = "panicked"]]
               /\ UNCHANGED runs
          ELSE IF newRemoteCallbackHandlerFails(body)
          THEN \* sendError, no return: r.start runs with the nil handler
               /\ handlers' = [handlers EXCEPT ![i] =
                     [@ EXCEPT !.handlerFailed = TRUE, !.errorResponses = @ + 1,
                               !.started = TRUE, !.pc = "running"]]
               /\ runs' = [runs EXCEPT ![i] = NewRun("nil")]
          ELSE /\ handlers' = [handlers EXCEPT ![i] =
                     [@ EXCEPT !.started = TRUE, !.pc = "running"]]
               /\ runs' = [runs EXCEPT ![i] = NewRun("remote")]
    /\ UNCHANGED <<r, atStart, mode>>
    /\ UNCHANGED <<callbackVars, progressVars>>

\* a delivery through the nil handler panics; net/http ends the handler
DeliverThroughNil(i) ==
    /\ mode = "remote"
    /\ handlers[i].pc = "running"
    /\ runs[i].pc = "deliver"
    /\ runs[i].cbh = "nil"
    /\ runs' = [runs EXCEPT ![i].pc = "panicked"]
    /\ handlers' = [handlers EXCEPT ![i].pc = "panicked"]
    /\ UNCHANGED <<r, atStart, mode>>
    /\ UNCHANGED <<callbackVars, progressVars>>

\* r.start returned: its error, if any, is written by sendError
HandlerReturn(i) ==
    /\ mode = "remote"
    /\ handlers[i].pc = "running"
    /\ runs[i].pc = "done"
    /\ handlers' = [handlers EXCEPT ![i] =
          [@ EXCEPT !.errorResponses = IF runs[i].result = "ok" THEN @ ELSE @ + 1,
                    !.pc = "returned"]]
    /\ UNCHANGED <<r, atStart, mode, runs>>
    /\ UNCHANGED <<callbackVars, progressVars>>

\* the runs of the HTTP entry point that are in flight
InFlight == {i \in 1 .. MaxRequests : handlers[i].pc = "running"}

Init ==
    /\ r = NewComponentReconciler
    /\ atStart = NewComponentReconciler
    /\ mode = "configuring"
    /\ runs = [k \in RunIds |-> IdleRun]
    /\ handlers = IdleHandlers
    /\ cb = IdleCallback
    /\ kind = "none"
    /\ object = NoObject
    /\ verdict = NoVerdict

Next ==
    \/ Configure
    \/ WithServerConfiguration
    \/ WithPreInstallAction
    \/ WithInstallAction
    \/ WithPostInstallAction
    \/ WithProgressTrackerConfig
    \/ Debug
    \/ StartLocal
    \/ StartRemote
    \/ \E k \in RunIds : DeliverRunning(k)
    \/ \E k \in RunIds : RunPipeline(k)
    \/ \E k \in RunIds : TrackReadiness(k)
    \/ \E k \in RunIds : Retry(k)
    \/ LocalReturn

Spec == Init /\ [][Next]_vars

(***************************************************************************)
(* The server after StartRemote, receiving requests.  The reconciler was   *)
(* configured with an install action and maxRetries unset or 1.            *)
(***************************************************************************)
RemoteConfigs ==
    {[NewComponentReconciler EXCEPT !.maxRetries = m, !.installAction = TRUE] :
        m \in {0, 1}}

InitRemote ==
    /\ atStart \in RemoteConfigs
    /\ r = validate(atStart)
    /\ mode = "remote"
    /\ runs = [k \in RunIds |-> IdleRun]
    /\ handlers = IdleHandlers
    /\ cb = IdleCallback
    /\ kind = "none"
    /\ object = NoObject
    /\ verdict = NoVerdict

NextRemote ==
    \/ \E i \in 1 .. MaxRequests : HandleRequest(i)
    \/ \E i \in 1 .. MaxRequests : DeliverThroughNil(i)
    \/ \E k \in RunIds : DeliverRunning(k)
    \/ \E k \in RunIds : RunPipeline(k)
    \/ \E k \in RunIds : TrackReadiness(k)
    \/ \E k \in RunIds : Retry(k)
    \/ \E i \in 1 .. MaxRequests : HandlerReturn(i)

SpecRemote == InitRemote /\ [][NextRemote]_vars

(***************************************************************************)
(* The callback handlers: Callback(status) of the local handler (wraps a   *)
(* status function) and of the remote handler (wraps a URL).  received is  *)
(* what reached the target: the invocations of the status function, or the *)
(* HTTP requests sent to the URL.                                          *)
(***************************************************************************)
Statuses == {Running, Success, Error}
FctResults == {"nil", "I failed", "timeout"}
\* HTTP status codes of the callback URL, 0 for a connection failure
Responses == {0, 200, 204, 301, 400, 500}

NewCallbackHandler(k) == [IdleCallback EXCEPT !.kind = k]

LocalCallbackOf(h, status, res) ==
    [h EXCEPT !.received = Append(@, status), !.calls = @ + 1,
              !.fctResult = res, !.returned = res]

\* the remote Callback, sending the request again after a failed response
RemoteCallbackOfRetrying(h, status, resp) ==
    [h EXCEPT !.received = IF resp \in 200 .. 299 THEN Append(@, status)
                           ELSE Append(Append(@, status), status),
              !.calls = @ + 1, !.response = resp,
              !.returned = IF resp \in 200 .. 299 THEN "nil" ELSE "error"]

RemoteCallbackOf(h, status, resp) ==
    [h EXCEPT !.received = Append(@, status), !.calls = @ + 1,
              !.response = resp,
              !.returned = IF resp \in 200 .. 299 THEN "nil" ELSE "error"]

LocalCallback ==
    /\ cb.kind = "local"
    /\ cb.calls < MaxCallbacks
    /\ \E status \in Statuses, res \in FctResults :
          cb' = LocalCallbackOf(cb, status, res)
    /\ UNCHANGED <<orchestratorVars, progressVars>>

RemoteCallback ==
    /\ cb.kind = "remote"
    /\ cb.calls < MaxCallbacks
    /\ \E status \in Statuses, resp \in Responses :
          cb' = RemoteCallbackOf(cb, status, resp)
    /\ UNCHANGED <<orchestratorVars, progressVars>>

InitCallback ==
    /\ r = NewComponentReconciler
    /\ atStart = NewComponentReconciler
    /\ mode = "idle"
    /\ runs = [k \in RunIds |-> IdleRun]
    /\ handlers = IdleHandlers
    /\ cb \in {NewCallbackHandler("local"), NewCallbackHandler("remote")}
    /\ kind = "none"
    /\ object = NoObject
    /\ verdict = NoVerdict

NextCallback ==
    \/ LocalCallback
    \/ RemoteCallback

SpecCallback == InitCallback /\ [][NextCallback]_vars

\* C4: every Callback call made exactly one delivery attempt; the local
\* handler returned the result of the status function unchanged, the remote
\* handler returned nil iff the response was 2xx (an error for 400).
CallbackOnceNoRetry ==
    /\ Len(cb.received) = cb.calls
    /\ (cb.kind = "local" /\ cb.calls > 0) => cb.returned = cb.fctResult
    /\ (cb.kind = "remote" /\ cb.calls > 0) =>
          /\ cb.returned = "nil" <=> (cb.response >= 200 /\ cb.response <= 299)
          /\ cb.response = 400 => cb.returned = "error"

CallbackOnceNoRetryWitness ==
    /\ cb.kind = "remote"
    /\ cb.calls = 2
    /\ cb.received = <<Running, Running>>
    /\ cb.response = 400
    /\ cb.returned = "error"

(***************************************************************************)
(* Properties of the orchestrator                                          *)
(***************************************************************************)
RECURSIVE CountOf(_, _)
CountOf(status, seq) ==
    IF seq = <<>> THEN 0
    ELSE (IF Head(seq) = status THEN 1 ELSE 0) + CountOf(status, Tail(seq))

\* the number of attempts a run is entitled to, from the configured value
ExpectedAttempts == IF atStart.maxRetries <= 0 THEN 5 ELSE atStart.maxRetries

\* C1: a run whose pipeline failed on every attempt made exactly maxRetries
\* attempts (5 when maxRetries was configured unset or non-positive), every
\* attempt was preceded by exactly one Running delivery, the run returned the
\* retries-exhausted error, and no attempt number exceeds maxRetries.
RetryLaw ==
    LET rn == runs[0] IN
    /\ rn.attempt <= ExpectedAttempts
    /\ rn.pc \in {"pipeline", "tracker", "failed", "done"} =>
          CountOf(Running, rn.delivered) = rn.attempt
    /\ rn.pc = "deliver" => CountOf(Running, rn.delivered) = rn.attempt - 1
    /\ (rn.pc = "done" /\ rn.failed = rn.attempt) =>
          /\ rn.attempt = ExpectedAttempts
          /\ rn.result = "retriesExhausted"

RetryLawWitness ==
    /\ mode = "returned"
    /\ atStart.maxRetries <= 0
    /\ runs[0].pc = "done"
    /\ runs[0].failed = 5
    /\ runs[0].result = "retriesExhausted"
    /\ CountOf(Running, runs[0].delivered) = 5

TerminalDelivered(rn) ==
    \E n \in DOMAIN rn.delivered : rn.delivered[n] \in Terminal

\* C3: once a terminal status (success or failure) was delivered for a run, no
\* further status is delivered for that run: its deliveries no longer change.
StatusMonotonic ==
    [][\A k \in RunIds :
          TerminalDelivered(runs[k]) => runs'[k].delivered = runs[k].delivered]_vars

StatusMonotonicWitness ==
    /\ mode = "returned"
    /\ runs[0].delivered = <<Running, Running, Success>>

\* C5: when StartLocal or StartRemote has been entered, and whenever a run has
\* started, updateInterval, maxRetries, retryDelay and the port are positive:
\* the default (30s, 5, 30s, 8080) where the configured value was unset or
\* non-positive, the configured value otherwise; no other field was changed
\* and validating again changes nothing.
ValidatedBeforeRun ==
    (mode # "configuring" \/ \E k \in RunIds : runs[k].pc # "idle") =>
        /\ r.updateInterval > 0 /\ r.maxRetries > 0
        /\ r.retryDelay > 0 /\ r.port > 0
        /\ r.updateInterval =
              IF atStart.updateInterval <= 0 THEN 30 ELSE atStart.updateInterval
        /\ r.maxRetries = IF atStart.maxRetries <= 0 THEN 5 ELSE atStart.maxRetries
        /\ r.retryDelay = IF atStart.retryDelay <= 0 THEN 30 ELSE atStart.retryDelay
        /\ r.port = IF atStart.port <= 0 THEN 8080 ELSE atStart.port
        /\ \A f \in {"debug", "sslCrtFile", "sslKeyFile", "preInstallAction",
                     "installAction", "postInstallAction", "interval", "timeout"} :
              r[f] = atStart[f]
        /\ validate(r) = r

ValidatedBeforeRunWitness ==
    /\ mode = "local"
    /\ runs[0].pc = "pipeline"
    /\ atStart.maxRetries < 0 /\ r.maxRetries = 5
    /\ atStart.updateInterval = 2 /\ r.updateInterval = 2
    /\ atStart.retryDelay = 0 /\ r.retryDelay = 30
    /\ atStart.port = 9090 /\ r.port = 9090
    /\ r.debug /\ r.timeout = 3

\* C2: a request whose decoding or whose callback handler construction failed
\* got exactly one error response, started no run, and no later step of the
\* handler used the missing model.
ConfigurationErrorSurfacedOnce ==
    \A i \in 1 .. MaxRequests :
        (handlers[i].decodeFailed \/ handlers[i].handlerFailed) =>
            /\ handlers[i].errorResponses = 1
            /\ ~handlers[i].started
            /\ ~handlers[i].nilModelUsed

\* the cap a worker pool of the HTTP entry point would enforce
WorkerPoolCap == MaxRequests - 1

\* C6: the number of runs of the HTTP entry point in flight never exceeds the
\* cap of the worker pool.
InFlightBounded == Cardinality(InFlight) <= WorkerPoolCap

(***************************************************************************)
(* Package progress: the readiness predicates.                             *)
(* A Go pointer is a sequence: <<>> is nil, <<x>> points to x.  A result   *)
(* (bool, error) is a record.  object.fail names the cluster call that     *)
(* fails, "none" when every call succeeds.  The int32 counts are widened   *)
(* to int before any arithmetic, so nothing overflows.                     *)
(***************************************************************************)
Nil == <<>>
Ptr(x) == <<x>>

Ok(ready) == [ready |-> ready, err |-> FALSE]
Failed == [ready |-> FALSE, err |-> TRUE]

expectedReadyReplicas == 1
expectedReadyDaemonSet == 1

\* ---- StatefulSet ----
isStatefulSetReadyNoPartition(o) ==
    IF o.fail = "get" THEN Failed
    ELSE LET replicas == IF o.replicas # Nil THEN o.replicas[1] ELSE 1
         IN  IF o.updatedReplicas # replicas THEN Ok(FALSE)
             ELSE Ok(o.readyReplicas = replicas)

isStatefulSetReady(o) ==
    IF o.fail = "get" THEN Failed
    ELSE LET partition ==
                 IF o.rollingUpdate # Nil /\ o.rollingUpdate[1].partition # Nil
                 THEN o.rollingUpdate[1].partition[1] ELSE 0
             replicas == IF o.replicas # Nil THEN o.replicas[1] ELSE 1
             expectedReplicas == replicas - partition
         IN  IF o.updatedReplicas # expectedReplicas THEN Ok(FALSE)
             ELSE Ok(o.readyReplicas = replicas)

\* ---- Pod, DaemonSet, Job ----
ConditionTrue == "True"
ConditionFalse == "False"
ConditionUnknown == "Unknown"
ConditionStatuses == {ConditionTrue, ConditionFalse, ConditionUnknown}
PodRunning == "Running"

RECURSIVE AllConditionsTrue(_)
\* the loop over the conditions, returning at the first that is not True
AllConditionsTrue(conds) ==
    IF conds = <<>> THEN TRUE
    ELSE IF Head(conds) # ConditionTrue THEN FALSE
    ELSE AllConditionsTrue(Tail(conds))

isPodReadySwallowingError(o) ==
    IF o.fail = "get" THEN Ok(FALSE)
    ELSE IF o.phase # PodRunning THEN Ok(FALSE)
    ELSE IF ~AllConditionsTrue(o.conditions) THEN Ok(FALSE)
    ELSE Ok(o.deletionTimestamp = Nil)

isPodReady(o) ==
    IF o.fail = "get" THEN Failed
    ELSE IF o.phase # PodRunning THEN Ok(FALSE)
    ELSE IF ~AllConditionsTrue(o.conditions) THEN Ok(FALSE)
    ELSE Ok(o.deletionTimestamp = Nil)

isDaemonSetReady(o) ==
    IF o.fail = "get" THEN Failed
    ELSE IF o.updatedNumberScheduled # o.desiredNumberScheduled THEN Ok(FALSE)
    ELSE Ok(o.numberReady >= expectedReadyDaemonSet)

isJobReady(o) ==
    IF o.fail = "get" THEN Failed
    ELSE IF ~AllConditionsTrue(o.conditions) THEN Ok(FALSE)
    ELSE Ok(TRUE)

\* ---- CustomResourceDefinition, v1 and v1beta1 ----
Established == "Established"
NamesAccepted == "NamesAccepted"
Terminating == "Terminating"

\* scheme.Scheme.Convert to the typed CRD: every condition keeps its type
\* and its status
ConvertConditions(conds) ==
    [n \in DOMAIN conds |-> [type |-> conds[n].type, status |-> conds[n].status]]

RECURSIVE crdBetaReadyStrict(_)
crdBetaReadyStrict(conds) ==
    IF conds = <<>> THEN FALSE
    ELSE IF Head(conds).type = Established /\ Head(conds).status = ConditionTrue
    THEN TRUE
    ELSE crdBetaReadyStrict(Tail(conds))

RECURSIVE crdBetaReady(_)
crdBetaReady(conds) ==
    IF conds = <<>> THEN FALSE
    ELSE IF Head(conds).type = Established /\ Head(conds).status = ConditionTrue
    THEN TRUE
    ELSE IF Head(conds).type = NamesAccepted /\ Head(conds).status = ConditionFalse
    THEN TRUE
    ELSE crdBetaReady(Tail(conds))

RECURSIVE crdReady(_)
crdReady(conds) ==
    IF conds = <<>> THEN FALSE
    ELSE IF Head(conds).type = Established /\ Head(conds).status = ConditionTrue
    THEN TRUE
    ELSE IF Head(conds).type = NamesAccepted /\ Head(conds).status = ConditionFalse
    THEN TRUE
    ELSE crdReady(Tail(conds))

isCRDBetaReady(o) ==
    IF o.fail = "get" THEN Failed
    ELSE IF o.fail = "convert" THEN Failed
    ELSE IF ~crdBetaReady(ConvertConditions(o.conditions)) THEN Ok(FALSE)
    ELSE Ok(TRUE)

isCRDReady(o) ==
    IF o.fail = "get" THEN Failed
    ELSE IF o.fail = "convert" THEN Failed
    ELSE IF ~crdReady(ConvertConditions(o.conditions)) THEN Ok(FALSE)
    ELSE Ok(TRUE)

\* ---- Deployment ----
\* appsv1.DefaultDeploymentUniqueLabelKey
DefaultDeploymentUniqueLabelKey == "pod-template-hash"

\* a label map is nil or a set of <<key, value>> pairs, one per key
NilLabels == [isNil |-> TRUE, m |-> {}]
Labels(pairs) == [isNil |-> FALSE, m |-> pairs]
\* a pod template: its labels and the rest of it (spec)
Template(labels, spec) == [labels |-> labels, spec |-> spec]

\* delete(labels, key): a no-op on a nil map
DeleteLabel(labels, key) == [labels EXCEPT !.m = {p \in @ : p[1] # key}]

\* apiequality.Semantic.DeepEqual: a nil map equals an empty map
SemanticDeepEqual(t1, t2) ==
    /\ t1.labels.m = t2.labels.m
    /\ t1.spec = t2.spec

equalIgnoreHash(template1, template2) ==
    LET t1Copy == [template1 EXCEPT
                      !.labels = DeleteLabel(@, DefaultDeploymentUniqueLabelKey)]
        t2Copy == [template2 EXCEPT
                      !.labels = DeleteLabel(@, DefaultDeploymentUniqueLabelKey)]
    IN  SemanticDeepEqual(t1Copy, t2Copy)

\* replicaSetsByCreationTimestamp.Less
Less(a, b) ==
    IF a.creationTimestamp = b.creationTimestamp
    THEN a.name < b.name
    ELSE a.creationTimestamp < b.creationTimestamp

RECURSIVE SortByCreationTimestamp(_)
\* sort.Sort(replicaSetsByCreationTimestamp(rsList)); Less is a total order
\* on replica sets of distinct names, so the result is the same for every
\* order of the list
SortByCreationTimestamp(rsSet) ==
    IF rsSet = {} THEN <<>>
    ELSE LET first == CHOOSE a \in rsSet : \A b \in rsSet \ {a} : Less(a, b)
         IN  <<first>> \o SortByCreationTimestamp(rsSet \ {first})

RECURSIVE FirstEqualTemplate(_, _)
FirstEqualTemplate(template, rsList) ==
    IF rsList = <<>> THEN Nil
    ELSE IF equalIgnoreHash(Head(rsList).template, template) THEN Ptr(Head(rsList))
    ELSE FirstEqualTemplate(template, Tail(rsList))

RECURSIVE LastEqualTemplate(_, _)
LastEqualTemplate(template, rsList) ==
    IF rsList = <<>> THEN Nil
    ELSE LET later == LastEqualTemplate(template, Tail(rsList))
         IN  IF later # Nil THEN later
             ELSE IF equalIgnoreHash(Head(rsList).template, template)
             THEN Ptr(Head(rsList))
             ELSE Nil

\* findNewReplicaSet choosing the newest replica set of the same template
findNewestReplicaSet(deployment, rsSet) ==
    LastEqualTemplate(deployment.template, SortByCreationTimestamp(rsSet))

findNewReplicaSet(deployment, rsSet) ==
    FirstEqualTemplate(deployment.template, SortByCreationTimestamp(rsSet))

\* the result is <<replicaSet, err>>; the list call returns the replica sets
\* of the deployment's namespace that its label selector matches
getLatestReplicaSet(deployment) ==
    IF deployment.fail = "selector" THEN <<Nil, TRUE>>
    ELSE IF deployment.fail = "list" THEN <<Nil, TRUE>>
    ELSE LET allReplicaSets == {rs \in deployment.replicaSets : rs.listed}
             ownedReplicaSets == {rs \in allReplicaSets : rs.controlled}
         IN  IF ownedReplicaSets = {} THEN <<Nil, FALSE>>
             ELSE <<findNewReplicaSet(deployment, ownedReplicaSets), FALSE>>

isDeploymentReady(o) ==
    IF o.fail = "get" THEN Failed
    ELSE LET latest == getLatestReplicaSet(o)
             replicaSet == latest[1]
             err == latest[2]
         IN  IF err \/ replicaSet = Nil THEN [ready |-> FALSE, err |-> err]
             ELSE Ok(replicaSet[1].readyReplicas >= expectedReadyReplicas)

(***************************************************************************)
(* The cluster states the predicates are applied to                        *)
(***************************************************************************)
Counts == 0 .. MaxReplicas
OptCounts == {Nil} \cup {Ptr(n) : n \in Counts}

RECURSIVE SeqsUpTo(_, _)
\* the sequences over S of length at most n
SeqsUpTo(S, n) ==
    IF n = 0 THEN {<<>>}
    ELSE LET shorter == SeqsUpTo(S, n - 1)
         IN  shorter \cup {Append(q, x) : q \in shorter, x \in S}

StatefulSets ==
    {[fail |-> "get", replicas |-> Nil, rollingUpdate |-> Nil,
      updatedReplicas |-> 0, readyReplicas |-> 0]}
    \cup
    [fail : {"none"}, replicas : OptCounts,
     rollingUpdate : {Nil} \cup {Ptr([partition |-> pt]) : pt \in OptCounts},
     updatedReplicas : Counts, readyReplicas : Counts]

Pods ==
    {[fail |-> "get", phase |-> "Pending", conditions |-> <<>>,
      deletionTimestamp |-> Nil]}
    \cup
    [fail : {"none"}, phase : {"Pending", PodRunning, "Succeeded"},
     conditions : SeqsUpTo(ConditionStatuses, MaxConditions),
     deletionTimestamp : {Nil, Ptr(1)}]

DaemonSets ==
    {[fail |-> "get", updatedNumberScheduled |-> 0,
      desiredNumberScheduled |-> 0, numberReady |-> 0]}
    \cup
    [fail : {"none"}, updatedNumberScheduled : Counts,
     desiredNumberScheduled : Counts, numberReady : Counts]

Jobs ==
    {[fail |-> "get", conditions |-> <<>>]}
    \cup
    [fail : {"none"}, conditions : SeqsUpTo(ConditionStatuses, MaxConditions)]

CRDConditions ==
    [type : {Established, NamesAccepted, Terminating}, status : ConditionStatuses]

CRDs ==
    {[fail |-> f, conditions |-> <<>>] : f \in {"get", "convert"}}
    \cup
    [fail : {"none"}, conditions : SeqsUpTo(CRDConditions, MaxConditions)]

RSTemplates ==
    { Template(NilLabels, 1),
      Template(Labels({<<DefaultDeploymentUniqueLabelKey, "a">>}), 1),
      Template(Labels({<<"app", "x">>, <<DefaultDeploymentUniqueLabelKey, "a">>}), 1),
      Template(Labels({<<DefaultDeploymentUniqueLabelKey, "b">>}), 2) }

DeploymentTemplates ==
    { Template(Labels({}), 1),
      Template(Labels({<<"app", "x">>}), 1),
      Template(Labels({<<DefaultDeploymentUniqueLabelKey, "c">>}), 1) }

\* what a replica set can be, its name apart
ReplicaSetShapes ==
    [creationTimestamp : {1, 2}, listed : BOOLEAN, controlled : BOOLEAN,
     template : RSTemplates, readyReplicas : {0, 1}]

Named(n, shape) ==
    [name |-> n, creationTimestamp |-> shape.creationTimestamp,
     listed |-> shape.listed, controlled |-> shape.controlled,
     template |-> shape.template, readyReplicas |-> shape.readyReplicas]

\* the sets of replica sets of distinct names 1 .. MaxReplicaSets
ReplicaSetSets ==
    {{Named(n, have[n][1]) : n \in {m \in 1 .. MaxReplicaSets : have[m] # Nil}} :
        have \in [1 .. MaxReplicaSets ->
                     {Nil} \cup {Ptr(sh) : sh \in ReplicaSetShapes}]}

Deployments ==
    {[fail |-> f, template |-> Template(Labels({}), 1), replicaSets |-> {}] :
        f \in {"get", "selector", "list"}}
    \cup
    [fail : {"none"}, template : DeploymentTemplates, replicaSets : ReplicaSetSets]

Kinds == {"Deployment", "StatefulSet", "Pod", "DaemonSet", "Job",
          "CustomResourceDefinition"}

ObjectsOf(k) ==
    CASE k = "Deployment" -> Deployments
      [] k = "StatefulSet" -> StatefulSets
      [] k = "Pod" -> Pods
      [] k = "DaemonSet" -> DaemonSets
      [] k = "Job" -> Jobs
      [] k = "CustomResourceDefinition" -> CRDs

InitProgress ==
    /\ r = NewComponentReconciler
    /\ atStart = NewComponentReconciler
    /\ mode = "idle"
    /\ runs = [k \in RunIds |-> IdleRun]
    /\ handlers = IdleHandlers
    /\ cb = IdleCallback
    /\ kind \in Kinds
    /\ object \in ObjectsOf(kind)
    /\ verdict = NoVerdict

\* one action per readiness predicate: its call on the tracked object
IsDeploymentReady ==
    /\ kind = "Deployment"
    /\ verdict["isDeploymentReady"] = Nil
    /\ verdict' = [verdict EXCEPT !["isDeploymentReady"] = Ptr(isDeploymentReady(object))]
    /\ UNCHANGED <<kind, object, orchestratorVars, callbackVars>>

IsStatefulSetReady ==
    /\ kind = "StatefulSet"
    /\ verdict["isStatefulSetReady"] = Nil
    /\ verdict' = [verdict EXCEPT !["isStatefulSetReady"] = Ptr(isStatefulSetReady(object))]
    /\ UNCHANGED <<kind, object, orchestratorVars, callbackVars>>

IsPodReady ==
    /\ kind = "Pod"
    /\ verdict["isPodReady"] = Nil
    /\ verdict' = [verdict EXCEPT !["isPodReady"] = Ptr(isPodReady(object))]
    /\ UNCHANGED <<kind, object, orchestratorVars, callbackVars>>

IsDaemonSetReady ==
    /\ kind = "DaemonSet"
    /\ verdict["isDaemonSetReady"] = Nil
    /\ verdict' = [verdict EXCEPT !["isDaemonSetReady"] = Ptr(isDaemonSetReady(object))]
    /\ UNCHANGED <<kind, object, orchestratorVars, callbackVars>>

IsJobReady ==
    /\ kind = "Job"
    /\ verdict["isJobReady"] = Nil
    /\ verdict' = [verdict EXCEPT !["isJobReady"] = Ptr(isJobReady(object))]
    /\ UNCHANGED <<kind, object, orchestratorVars, callbackVars>>

IsCRDBetaReady ==
    /\ kind = "CustomResourceDefinition"
    /\ verdict["isCRDBetaReady"] = Nil
    /\ verdict' = [verdict EXCEPT !["isCRDBetaReady"] = Ptr(isCRDBetaReady(object))]
    /\ UNCHANGED <<kind, object, orchestratorVars, callbackVars>>

IsCRDReady ==
    /\ kind = "CustomResourceDefinition"
    /\ verdict["isCRDReady"] = Nil
    /\ verdict' = [verdict EXCEPT !["isCRDReady"] = Ptr(isCRDReady(object))]
    /\ UNCHANGED <<kind, object, orchestratorVars, callbackVars>>

NextProgress ==
    \/ IsDeploymentReady
    \/ IsStatefulSetReady
    \/ IsPodReady
    \/ IsDaemonSetReady
    \/ IsJobReady
    \/ IsCRDBetaReady
    \/ IsCRDReady

SpecProgress == InitProgress /\ [][NextProgress]_vars

(***************************************************************************)
(* Properties of the readiness predicates                                  *)
(***************************************************************************)
\* C7: for a fetched StatefulSet, isStatefulSetReady returns ready iff
\* UpdatedReplicas = replicas - partition and ReadyReplicas = replicas, with
\* replicas 1 when Spec.Replicas is nil and partition 0 when the rolling
\* update or its partition is nil; replicas 3, partition 1, updated 2,
\* ready 3 is ready, and updated 1 is not ready whatever ReadyReplicas is.
StatefulSetReadyIff ==
    (kind = "StatefulSet" /\ verdict["isStatefulSetReady"] # Nil
        /\ object.fail = "none") =>
        LET res == verdict["isStatefulSetReady"][1]
            replicas == IF object.replicas = Nil THEN 1 ELSE object.replicas[1]
            partition ==
                IF object.rollingUpdate = Nil THEN 0
                ELSE IF object.rollingUpdate[1].partition = Nil THEN 0
                ELSE object.rollingUpdate[1].partition[1]
        IN  /\ res.ready <=> (/\ object.updatedReplicas = replicas - partition
                              /\ object.readyReplicas = replicas)
            /\ (replicas = 3 /\ partition = 1 /\ object.updatedReplicas = 2
                  /\ object.readyReplicas = 3) => res.ready
            /\ (replicas = 3 /\ partition = 1 /\ object.updatedReplicas = 1)
                  => ~res.ready

StatefulSetReadyIffWitness ==
    /\ kind = "StatefulSet"
    /\ object.fail = "none"
    /\ object.replicas = Ptr(3)
    /\ object.rollingUpdate = Ptr([partition |-> Ptr(1)])
    /\ object.updatedReplicas = 2
    /\ object.readyReplicas = 3
    /\ verdict["isStatefulSetReady"] = Ptr(Ok(TRUE))

\* the labels of a template without the revision-hash label
WithoutHash(template) ==
    {p \in template.labels.m : p[1] # "pod-template-hash"}

\* the replica sets listed for the deployment, owned by it, of its template
MatchingReplicaSets ==
    {rs \in object.replicaSets :
        /\ rs.listed /\ rs.controlled
        /\ rs.template.spec = object.template.spec
        /\ WithoutHash(rs.template) = WithoutHash(object.template)}

Earlier(a, b) ==
    \/ a.creationTimestamp < b.creationTimestamp
    \/ a.creationTimestamp = b.creationTimestamp /\ a.name < b.name

\* C8: isDeploymentReady returns true iff the current replica set has
\* ReadyReplicas >= 1, the current replica set being the earliest (creation
\* timestamp, then name) listed and owned replica set whose template equals
\* the deployment's once the revision-hash label is removed from both; with
\* no such replica set the result is (false, no error).
DeploymentReadyIffCurrentReady ==
    (kind = "Deployment" /\ verdict["isDeploymentReady"] # Nil
        /\ object.fail = "none") =>
        LET res == verdict["isDeploymentReady"][1]
            current == {rs \in MatchingReplicaSets :
                          \A other \in MatchingReplicaSets \ {rs} : Earlier(rs, other)}
        IN  /\ ~res.err
            /\ res.ready <=> \E rs \in current : rs.readyReplicas >= 1
            /\ MatchingReplicaSets = {} => res = Ok(FALSE)

\* two replica sets of the deployment's template, with different labels, were
\* created together; the first by name is not ready, the second is
DeploymentReadyIffCurrentReadyWitness ==
    /\ kind = "Deployment"
    /\ object.fail = "none"
    /\ verdict["isDeploymentReady"] = Ptr(Ok(FALSE))
    /\ \E a, b \in MatchingReplicaSets :
          /\ a.name < b.name
          /\ a.creationTimestamp = b.creationTimestamp
          /\ a.readyReplicas = 0 /\ b.readyReplicas = 1
          /\ a.template # b.template

\* Established is True, or NamesAccepted is False, somewhere in the list
EstablishedOrNamesRejected(conds) ==
    \E n \in DOMAIN conds :
        \/ conds[n].type = "Established" /\ conds[n].status = "True"
        \/ conds[n].type = "NamesAccepted" /\ conds[n].status = "False"

\* C9: on every list of conditions the v1 and the v1beta1 predicate give the
\* same verdict: ready iff the list has Established = True or
\* NamesAccepted = False, wherever in the list; not ready on the empty list.
CRDVerdictsAgree ==
    (kind = "CustomResourceDefinition" /\ object.fail = "none") =>
        /\ \A p \in {"isCRDReady", "isCRDBetaReady"} :
              verdict[p] # Nil =>
                 /\ ~verdict[p][1].err
                 /\ verdict[p][1].ready <=> EstablishedOrNamesRejected(object.conditions)
                 /\ object.conditions = <<>> => ~verdict[p][1].ready
        /\ (verdict["isCRDReady"] # Nil /\ verdict["isCRDBetaReady"] # Nil) =>
              verdict["isCRDReady"] = verdict["isCRDBetaReady"]

CRDVerdictsAgreeWitness ==
    /\ kind = "CustomResourceDefinition"
    /\ object.fail = "none"
    /\ object.conditions = << [type |-> "Established", status |-> "False"],
                              [type |-> "NamesAccepted", status |-> "False"] >>
    /\ verdict["isCRDReady"] = Ptr(Ok(TRUE))
    /\ verdict["isCRDBetaReady"] = Ptr(Ok(TRUE))

\* C10: every readiness predicate returns (false, error) when a fetch, list or
\* conversion failed and a nil error when all succeeded, so ready = true never
\* comes with an error.
FetchErrorsDistinct ==
    \A p \in PredicateNames :
        verdict[p] # Nil =>
            LET res == verdict[p][1]
            IN  /\ object.fail # "none" => (res.err /\ ~res.ready)
                /\ object.fail = "none" => ~res.err
                /\ res.ready => ~res.err

FetchErrorsDistinctWitness ==
    /\ kind = "Pod"
    /\ object.fail = "get"
    /\ verdict["isPodReady"] = Ptr(Failed)
====
